---- MODULE Spec2Model ----
(***************************************************************************)
(* A model of the Cryptol client of the argo repository                    *)
(* (src/python/cryptol_api.py, src/python/argo/connection.py): netstring   *)
(* framing, the connection with its inbound buffer and reply dictionary,   *)
(* snapshots that share a socket, and the interactions (commands and       *)
(* queries) that thread the protocol state.                                *)
(***************************************************************************)
EXTENDS Integers, Sequences, FiniteSets, TLC

(***************************************************************************)
(* Bounds of the model.                                                    *)
(***************************************************************************)
\* number of CryptolConnection objects (the root and its snapshots)
MaxSess == 3
\* number of requests sent over the socket
MaxId == 3
\* number of malformed frames the server may write
MaxBad == 1
\* number of times recv returns a chunk that ends inside a frame
MaxCuts == 1
\* number of times recv returns a chunk that ends inside a frame while the
\* calls of a caller's program run
MaxProgramCuts == 2
\* number of characters of a message drawn for encode
MaxLen == 2
\* nesting depth of a value drawn for to_cryptol_arg
MaxDepth == 3
\* number of bytes of a buffer drawn for decode
MaxBuf == 5

(***************************************************************************)
(* Bytes and text.  An ASCII byte is the one-character string of its       *)
(* character; "xA9", "xB2" and "xC3" are the bytes 0xA9, 0xB2 and 0xC3.    *)
(* A character of a text is an ASCII character or one of                   *)
(*   "e_acute"  U+00E9, in UTF-8 the bytes 0xC3 0xA9                       *)
(*   "o_grave"  U+00F2, in UTF-8 the bytes 0xC3 0xB2                       *)
(***************************************************************************)
Digits == <<"0", "1", "2", "3", "4", "5", "6", "7", "8", "9">>

\* chr(b).isdigit(): the ASCII digits, and the byte 0xB2, which chr turns
\* into SUPERSCRIPT TWO
isdigit(b) == b \in {"0", "1", "2", "3", "4", "5", "6", "7", "8", "9", "xB2"}

\* str.encode() of one character
EncodeChar(c) ==
    IF c = "e_acute" THEN <<"xC3", "xA9">>
    ELSE IF c = "o_grave" THEN <<"xC3", "xB2">>
    ELSE <<c>>

\* string.encode(): the UTF-8 bytes of a text
RECURSIVE str_encode(_)
str_encode(string) ==
    IF string = <<>> THEN <<>>
    ELSE EncodeChar(string[1]) \o str_encode(Tail(string))

\* whether bytes.decode() succeeds: it raises UnicodeDecodeError, a
\* ValueError, on a lead byte without its continuation byte and on a
\* continuation byte without its lead byte
RECURSIVE IsUtf8(_)
IsUtf8(bs) ==
    IF bs = <<>> THEN TRUE
    ELSE IF bs[1] = "xC3"
    THEN /\ Len(bs) >= 2
         /\ bs[2] \in {"xA9", "xB2"}
         /\ IsUtf8(SubSeq(bs, 3, Len(bs)))
    ELSE /\ bs[1] \notin {"xA9", "xB2"}
         /\ IsUtf8(Tail(bs))

\* bytes.decode() of bytes that are UTF-8
RECURSIVE bytes_decode(_)
bytes_decode(bs) ==
    IF bs = <<>> THEN <<>>
    ELSE IF bs[1] = "xC3"
    THEN <<IF bs[2] = "xA9" THEN "e_acute" ELSE "o_grave">>
             \o bytes_decode(SubSeq(bs, 3, Len(bs)))
    ELSE <<bs[1]>> \o bytes_decode(Tail(bs))

DigitVal(b) == (CHOOSE k \in 1..10 : Digits[k] = b) - 1

DigitChar(n) == Digits[n + 1]

\* str(n).encode() for n >= 0
RECURSIVE str(_)
str(n) == IF n < 10 THEN <<DigitChar(n)>>
          ELSE str(n \div 10) \o <<DigitChar(n % 10)>>

\* int(text) for a non-empty sequence of ASCII digits
RECURSIVE int(_)
int(ds) == IF Len(ds) = 1 THEN DigitVal(ds[1])
           ELSE 10 * int(SubSeq(ds, 1, Len(ds) - 1)) + DigitVal(ds[Len(ds)])

\* F applied to the value of e, which is computed once
With(e, F(_)) == CHOOSE v \in {F(x) : x \in {e}} : TRUE

\* seq[i:] of Python, i counted from 0
Drop(seq, i) == SubSeq(seq, i + 1, Len(seq))

(***************************************************************************)
(* Netstring framing.                                                      *)
(***************************************************************************)
\* encode, after bytestring = string.encode()
encode(bytestring) == str(Len(bytestring)) \o <<":">> \o bytestring \o <<",">>

\* encode with a length prefix that counts characters instead of bytes
encode_counting_characters(string) ==
    str(Len(string)) \o <<":">> \o str_encode(string) \o <<",">>

\* encode(string)
encode_string(string) == encode(str_encode(string))

\* number of leading digits of netstring[i:], or -1 when the scan runs off
\* the end of the buffer (netstring[i] raises IndexError)
RECURSIVE ScanDigits(_, _)
ScanDigits(netstring, i) ==
    IF i >= Len(netstring) THEN -1
    ELSE IF isdigit(netstring[i + 1]) THEN ScanDigits(netstring, i + 1)
    ELSE i

IndexError == [tag |-> "IndexError"]
ValueError == [tag |-> "ValueError"]

\* decode once the i leading digits have been scanned: i is the index of the
\* first byte that is no digit.  int(length_bytes.decode()) raises ValueError
\* for no digits and for the byte 0xB2 among them, and out.decode() raises
\* it for a payload that is not UTF-8
decode_from(netstring, i) ==
    IF i = -1 THEN IndexError
    ELSE IF netstring[i + 1] # ":" THEN ValueError
    ELSE IF i = 0 THEN ValueError
    ELSE IF \E k \in 1..i : netstring[k] = "xB2" THEN ValueError
    ELSE With(i + 1 + int(SubSeq(netstring, 1, i)), LAMBDA end :
             IF end >= Len(netstring) THEN IndexError
             ELSE IF netstring[end + 1] # "," THEN ValueError
             ELSE IF ~IsUtf8(SubSeq(netstring, i + 2, end)) THEN ValueError
             ELSE [tag  |-> "ok",
                   msg  |-> bytes_decode(SubSeq(netstring, i + 2, end)),
                   rest |-> Drop(netstring, end + 1)])

decode(netstring) == decode_from(netstring, ScanDigits(netstring, 0))

(***************************************************************************)
(* Replies as JSON text.  The text of a reply is two bytes: the decimal    *)
(* digit of its id and one byte that stands for the rest of the object:    *)
(*   "a".."e"  {"result": {"answer": .., "state": <that token>}}           *)
(*   "q"       {"result": {"answer": ..}}                                  *)
(*   "x"       {"error": {"code": -1, "message": "boom"}}                  *)
(*   "y"       {"error": {"code": -1, "message": "boom", "data": "d"}}     *)
(***************************************************************************)
EmptyState == <<>>

\* the state tokens of the server: opaque to the client, a new one for each
\* command it answers
TokenChars == <<"a", "b", "c", "d", "e", "f", "g">>

Tokens == {TokenChars[n] : n \in 1..Len(TokenChars)}

Errors == {"x", "y"}

Contents == Tokens \cup {"q"} \cup Errors

ReplyObject(id, c) ==
    IF c \in Tokens THEN [id |-> id, result |-> [answer |-> "ans", state |-> <<c>>]]
    ELSE IF c = "q" THEN [id |-> id, result |-> [answer |-> "ans"]]
    ELSE IF c = "x" THEN [id |-> id, error |-> [message |-> <<"boom">>]]
    ELSE [id |-> id, error |-> [message |-> <<"boom">>, data |-> "d"]]

\* the text the server writes for a reply
ReplyText(id, c) == <<DigitChar(id), c>>

\* json.loads followed by the_reply['id']: a boxed reply, or <<>> when it raises
json_loads(r) ==
    IF /\ Len(r) = 2
       /\ isdigit(r[1])
       /\ r[2] \in Contents
    THEN <<ReplyObject(DigitVal(r[1]), r[2])>>
    ELSE <<>>

\* malformed frames: a non-digit where the length is expected, an empty
\* length, a byte other than ',' after the payload; and a well-formed frame
\* whose payload is not JSON
BadFrames == { <<"z">>, <<":">>, <<"2", ":", "1", "a", "z">>,
               <<"2", ":", "z", "z", ",">> }

(***************************************************************************)
(* State.                                                                  *)
(***************************************************************************)
VARIABLES
    conns,    \* the CryptolConnection objects, in order of construction
    bufs,     \* heap of bytearray objects (CryptolConnection.buf refers here)
    replies,  \* heap of dict objects (CryptolConnection.replies)
    ids,      \* heap of IDSource objects: next_id
    inters,   \* the CryptolInteraction objects, in order of construction
    out,      \* socket: the requests the client has written
    wire,     \* socket: bytes the server has written that recv has not returned
    ctl,      \* the client thread: idle, or inside wait_for_reply_to
    ret,      \* the reply or result the last call returned or the exception
              \* it raised; NoRet when it returned neither
    hist,     \* history: the server's writes, whether it has closed the
              \* socket, the frames decoded, and for every snapshot its
              \* parent and the parent's cursor
    call      \* a call of a module-level function: its arguments and what
              \* it returned or raised; NoCall while a session runs

session == <<conns, bufs, replies, ids, inters, out, wire, ctl, ret, hist>>

vars == <<conns, bufs, replies, ids, inters, out, wire, ctl, ret, hist, call>>

NoCall == [fn |-> "none"]

Sessions == 1..Len(conns)

BufObjs == 1..(MaxSess + 1)

Objs == 1..MaxSess

Idle == [pc |-> "idle", op |-> "none", s |-> 0, j |-> 0, w |-> 0, id |-> 0]

NoRet == [op |-> "none", j |-> 0, id |-> 0, exc |-> "", val |-> <<>>]

\* CryptolConnection.__init__ with parent=None
RootConnection ==
    [sock |-> 1, buf |-> 1, replies |-> 1, ids |-> 1, most_recent_result |-> 0]

InitSession ==
    /\ conns = <<RootConnection>>
    /\ bufs = [b \in BufObjs |-> <<>>]
    /\ replies = [o \in Objs |-> <<>>]
    /\ ids = [o \in Objs |-> 0]
    /\ inters = <<>>
    /\ out = <<>>
    /\ wire = <<>>
    /\ ctl = Idle
    /\ ret = NoRet
    /\ hist = [served |-> <<>>, decoded |-> <<>>, read |-> 0, ends |-> {0},
               written |-> 0, cuts |-> 0,
               forks |-> <<[parent |-> 0, cursor |-> 0, born |-> 0]>>,
               nbad |-> 0, closed |-> FALSE]

Init ==
    /\ InitSession
    /\ call = NoCall

(***************************************************************************)
(* IDSource and the objects a snapshot shares.                             *)
(***************************************************************************)
\* variant: get advances next_id by two
IDSourceGetTwice(next_id) == next_id + 2

\* IDSource.get: next_id += 1; return next_id
IDSourceGet(next_id) == next_id + 1

\* variant: a snapshot gets an IDSource of its own
ConnectionWithOwnIds(parent, n) == [parent EXCEPT !.ids = n]

\* CryptolConnection.__init__ with a parent: every field is the parent's
ConnectionFromParent(parent, n) ==
    [sock               |-> parent.sock,
     buf                |-> parent.buf,
     replies            |-> parent.replies,
     ids                |-> parent.ids,
     most_recent_result |-> parent.most_recent_result]

\* variant: the cursor is kept in an object the snapshots share
SetEveryCursor(cs, s, i) ==
    [t \in 1..Len(cs) |-> [cs[t] EXCEPT !.most_recent_result = i]]

\* self.most_recent_result = <the new interaction> on connection s
SetCursor(cs, s, i) == [cs EXCEPT ![s].most_recent_result = i]

(***************************************************************************)
(* The inbound path: buffer_replies, get_one_reply, process_replies.       *)
(***************************************************************************)
\* get_one_reply: the message (boxed; <<>> is None) and what self.buf is
\* afterwards; on success self.buf is bound to a new object holding the rest
get_one_reply(buf) ==
    With(decode(buf), LAMBDA d :
        IF d.tag = "ok" THEN [msg |-> <<d.msg>>, buf |-> d.rest, rebound |-> TRUE]
        ELSE [msg |-> <<>>, buf |-> buf, rebound |-> FALSE])

\* self.replies[the_reply['id']] = the_reply
Store(reps, r) == (r.id :> r) @@ reps

\* the loop of process_replies on a buffer: the final contents of self.buf,
\* the dictionary, the frames taken out, and the exception json.loads raised
RECURSIVE reply_loop(_, _, _)
reply_loop(buf, reps, dec) ==
    With(get_one_reply(buf), LAMBDA g :
        IF g.msg = <<>>
        THEN [buf |-> buf, replies |-> reps, decoded |-> dec, exc |-> ""]
        ELSE With(json_loads(g.msg[1]), LAMBDA r :
            IF r = <<>>
            THEN [buf |-> g.buf, replies |-> reps, decoded |-> Append(dec, g.msg[1]),
                  exc |-> "JSONDecodeError"]
            ELSE reply_loop(g.buf, Store(reps, r[1]), Append(dec, g.msg[1]))))

\* a bytearray object no connection refers to (see NameBufs)
FreeBuf == MaxSess + 1

\* the first connection that refers to the same bytearray as connection s
First(cs, s) == CHOOSE t \in 1..Len(cs) :
    /\ cs[t].buf = cs[s].buf
    /\ \A u \in 1..Len(cs) : cs[u].buf = cs[s].buf => t <= u

\* object identities are not observable: every bytearray is named after the
\* first connection that refers to it, and the others are dropped
NameConns(cs) == [s \in 1..Len(cs) |-> [cs[s] EXCEPT !.buf = First(cs, s)]]

NameBufs(bs, cs) ==
    [b \in BufObjs |->
        IF b \in 1..Len(cs) /\ First(cs, b) = b THEN bs[cs[b].buf] ELSE <<>>]

\* process_replies on connection s when recv returns the bytes `arrived`:
\* buffer_replies extends the bytearray self.buf refers to in place, then
\* every get_one_reply that succeeds binds self.buf of s alone to a new object
process_replies(cs, bs, rs, s, arrived) ==
    With(bs[cs[s].buf] \o arrived, LAMBDA full :
    With(reply_loop(full, rs[cs[s].replies], <<>>), LAMBDA loop :
    With(IF loop.decoded # <<>> THEN [cs EXCEPT ![s].buf = FreeBuf] ELSE cs, LAMBDA cs2 :
        [conns   |-> NameConns(cs2),
         bufs    |-> NameBufs([bs EXCEPT ![cs[s].buf] = full, ![FreeBuf] = loop.buf], cs2),
         replies |-> [rs EXCEPT ![cs[s].replies] = loop.replies],
         decoded |-> loop.decoded,
         exc     |-> loop.exc])))

(***************************************************************************)
(* Interactions.                                                           *)
(***************************************************************************)
\* variant: the data of an error reply is left out of the message
ErrorMsgWithoutData(res) == res.error.message

\* the message of the CryptolException raised for an error reply
ErrorMsg(res) ==
    IF "data" \in DOMAIN res.error
    THEN res.error.message \o <<" ", res.error.data>>
    ELSE res.error.message

\* CryptolCommand._result_and_state
result_and_state(res) ==
    IF "error" \in DOMAIN res
    THEN [exc |-> "CryptolException", val |-> ErrorMsg(res)]
    ELSE IF "state" \in DOMAIN res.result
    THEN [exc |-> "", answer |-> res.result.answer, state |-> res.result.state]
    ELSE [exc |-> "KeyError", val |-> <<"state">>]

\* CryptolCommand.state: _result_and_state()[1]
CommandState(res) == result_and_state(res).state

\* variant: a query's state() is the state before any command
QueryStateEmpty(it) == EmptyState

\* CryptolQuery.state
QueryState(it) == it.init_state

\* CryptolQuery._result
query_result(res) ==
    IF "error" \in DOMAIN res
    THEN [exc |-> "CryptolException", val |-> ErrorMsg(res)]
    ELSE [exc |-> "", answer |-> res.result.answer]

\* result() of an interaction whose raw reply is res
Result(it, res) ==
    LET r == IF it.kind = "Command" THEN result_and_state(res) ELSE query_result(res)
    IN  IF r.exc # "" THEN [exc |-> r.exc, val |-> r.val]
        ELSE [exc |-> "", val |-> <<r.answer>>]

\* variant: send_message does not store the identifier it takes
send_message_keeping_id(cs, idh, o, s, method, params) ==
    LET request_id == IDSourceGet(idh[cs[s].ids])
        msg == [jsonrpc |-> "2.0", method |-> method, id |-> request_id,
                params |-> params]
    IN  [ids |-> idh,
         out |-> Append(o, msg),
         request_id |-> request_id]

\* variant: send_message writes the request twice
send_message_twice(cs, idh, o, s, method, params) ==
    LET request_id == IDSourceGet(idh[cs[s].ids])
        msg == [jsonrpc |-> "2.0", method |-> method, id |-> request_id,
                params |-> params]
    IN  [ids |-> [idh EXCEPT ![cs[s].ids] = request_id],
         out |-> Append(Append(o, msg), msg),
         request_id |-> request_id]

\* send_message on connection s: a new id, and the request written
send_message(cs, idh, o, s, method, params) ==
    LET request_id == IDSourceGet(idh[cs[s].ids])
        msg == [jsonrpc |-> "2.0", method |-> method, id |-> request_id,
                params |-> params]
    IN  [ids |-> [idh EXCEPT ![cs[s].ids] = request_id],
         out |-> Append(o, msg),
         request_id |-> request_id]

\* CryptolInteraction.__init__ after protocol_state() returned `state` on
\* connection s: send_message, then the assignment to most_recent_result
Issue(cs, idh, its, o, s, kind, state) ==
    LET m  == send_message(cs, idh, o, s, kind, [state |-> state])
        it == [connection |-> s, kind |-> kind, request_id |-> m.request_id,
               init_state |-> state, raw |-> <<>>]
    IN  [ids    |-> m.ids,
         out    |-> m.out,
         inters |-> Append(its, it),
         conns  |-> SetCursor(cs, s, Len(its) + 1)]

\* variant: the state of a command at the cursor is taken from its request,
\* without its reply
protocol_state_unresolved(cs, its, s) ==
    LET c == cs[s].most_recent_result IN
    IF c = 0 THEN [tag |-> "state", state |-> EmptyState]
    ELSE [tag |-> "state", state |-> its[c].init_state]

\* CryptolConnection.protocol_state on connection s: the token, or the
\* command (the cursor) whose state() has to be resolved first
protocol_state(cs, its, s) ==
    LET c == cs[s].most_recent_result IN
    IF c = 0 THEN [tag |-> "state", state |-> EmptyState]
    ELSE IF its[c].kind = "Query" THEN [tag |-> "state", state |-> QueryState(its[c])]
    ELSE [tag |-> "command", j |-> c]

(***************************************************************************)
(* The client's calls.  The client is one thread: a call runs to its end   *)
(* unless it has to wait for a reply; then the thread stays inside         *)
(* wait_for_reply_to, one process_replies at a time, while the server      *)
(* goes on.  Each process_replies receives some prefix of the bytes the    *)
(* server has written so far: recv returns what has arrived.               *)
(***************************************************************************)
\* the requests are bounded by MaxId, or by the program of the caller when
\* the calls are those of a program
Bounded == call.fn = "program" \/ Len(out) < MaxId

\* what a call returned or raised: the call, the interaction and the request
\* identifier it was about, the exception and the value
Returned(op, j, id, exc, val) ==
    [op |-> op, j |-> j, id |-> id, exc |-> exc, val |-> val]

\* send the request of a new interaction of this kind on connection s
Send(op, s, j, cs, its, state) ==
    \E n \in {Issue(cs, ids, its, out, s, op, state)} :
    /\ conns' = n.conns
    /\ ids' = n.ids
    /\ inters' = n.inters
    /\ out' = n.out
    /\ ret' = NoRet

\* a call returns a value or raises: nothing is sent, no cursor moves
Raise(op, j, id, cs, its, exc, val) ==
    /\ conns' = cs
    /\ inters' = its
    /\ UNCHANGED <<ids, out>>
    /\ ret' = Returned(op, j, id, exc, val)

\* the rest of a call once raw_result() of interaction j has its reply
AfterReply(op, s, j, cs, its) ==
    LET res == its[j].raw[1] IN
    IF op = "result"
    THEN LET r == Result(its[j], res) IN
         Raise(op, j, its[j].request_id, cs, its, r.exc, r.val)
    ELSE LET r == result_and_state(res) IN
         IF r.exc # "" THEN Raise(op, j, its[j].request_id, cs, its, r.exc, r.val)
         ELSE Send(op, s, j, cs, its, CommandState(res))

\* snapshot() on connection s
Snapshot(s) ==
    /\ ctl.pc = "idle"
    /\ Len(conns) < MaxSess
    /\ conns' = Append(conns, ConnectionFromParent(conns[s], Len(conns) + 1))
    /\ hist' = [hist EXCEPT !.forks =
                   Append(@, [parent |-> s, cursor |-> conns[s].most_recent_result,
                              born |-> Len(inters)])]
    /\ ret' = NoRet
    /\ UNCHANGED <<bufs, replies, ids, inters, out, wire, ctl, call>>

\* variant: the thread waits on the connection the call was made on
WaitOnCaller(op, s, j, w, id) ==
    [pc |-> "wait", op |-> op, s |-> s, j |-> j, w |-> IF s = 0 THEN w ELSE s,
     id |-> id]

\* the thread enters wait_for_reply_to(id) on connection w
Wait(op, s, j, w, id) == [pc |-> "wait", op |-> op, s |-> s, j |-> j, w |-> w, id |-> id]

\* a command (change_directory, load_file) or a query (evaluate_expression,
\* call, names) on connection s: the constructor of the interaction
IssueOp(s, kind) ==
    /\ ctl.pc = "idle"
    /\ Bounded
    /\ LET ps == protocol_state(conns, inters, s) IN
       IF ps.tag = "state"
       THEN /\ Send(kind, s, 0, conns, inters, ps.state)
            /\ UNCHANGED ctl
       ELSE IF inters[ps.j].raw # <<>>
       THEN /\ AfterReply(kind, s, ps.j, conns, inters)
            /\ UNCHANGED ctl
       ELSE /\ ctl' = Wait(kind, s, ps.j, inters[ps.j].connection,
                           inters[ps.j].request_id)
            /\ ret' = NoRet
            /\ UNCHANGED <<conns, ids, inters, out>>
    /\ UNCHANGED <<bufs, replies, wire, hist, call>>

IssueCommand(s) == IssueOp(s, "Command")

IssueQuery(s) == IssueOp(s, "Query")

\* result() of interaction j
Resolve(j) ==
    /\ ctl.pc = "idle"
    /\ IF inters[j].raw # <<>>
       THEN /\ AfterReply("result", 0, j, conns, inters)
            /\ UNCHANGED ctl
       ELSE /\ ctl' = Wait("result", 0, j, inters[j].connection, inters[j].request_id)
            /\ ret' = NoRet
            /\ UNCHANGED <<conns, ids, inters, out>>
    /\ UNCHANGED <<bufs, replies, wire, hist, call>>

\* send_message() called on connection s
SendMessage(s) ==
    /\ ctl.pc = "idle"
    /\ Bounded
    /\ LET m == send_message(conns, ids, out, s, "send", [state |-> EmptyState]) IN
       /\ ids' = m.ids
       /\ out' = m.out
       /\ ret' = Returned("send_message", 0, m.request_id, "", <<>>)
    /\ UNCHANGED <<conns, bufs, replies, inters, wire, ctl, hist, call>>

\* wait_for_reply_to(id) called on connection s, for the id of a request sent
WaitFor(s, id) ==
    /\ ctl.pc = "idle"
    /\ \E k \in 1..Len(out) : out[k].id = id
    /\ ctl' = Wait("wait_for_reply_to", s, 0, s, id)
    /\ ret' = NoRet
    /\ UNCHANGED <<conns, bufs, replies, ids, inters, out, wire, hist, call>>

\* the chunks that may end inside a frame
Cuts == IF call.fn = "program" THEN MaxProgramCuts ELSE MaxCuts

\* recv returns the next n bytes: the chunk ends inside a frame when the
\* bytes read so far do not end where a frame of the server ends
Cut(n) == (hist.read + n) \notin hist.ends

\* buffer_replies drains the socket: recv returns all the bytes the server has
\* written, or, when the last frame has arrived only in part, the bytes up to
\* a point inside a frame.  (A chunk that ends between two frames is the first
\* case with the server writing the second frame later.)
Recv(n) ==
    /\ n = Len(wire) \/ (Cut(n) /\ hist.cuts < Cuts)
    /\ wire' = Drop(wire, n)

Received(h, n, decoded) ==
    [h EXCEPT !.decoded = @ \o decoded,
              !.read = @ + n,
              !.cuts = IF Cut(n) THEN @ + 1 ELSE @]

\* process_replies() called on connection s; recv returns n bytes
Pump(s, n) ==
    /\ ctl.pc = "idle"
    /\ Recv(n)
    /\ \E p \in {process_replies(conns, bufs, replies, s, SubSeq(wire, 1, n))} :
       /\ conns' = p.conns
       /\ bufs' = p.bufs
       /\ replies' = p.replies
       /\ hist' = Received(hist, n, p.decoded)
       /\ ret' = IF p.exc # "" THEN Returned("process_replies", 0, 0, p.exc, <<>>)
                  ELSE NoRet
    /\ UNCHANGED <<ids, inters, out, ctl, call>>

\* one turn of wait_for_reply_to(ctl.id) on connection ctl.w: process_replies
\* (recv returns n bytes), then the test; when the reply is there the call
\* that waited goes on to its end
WaitStep(n) ==
    /\ ctl.pc = "wait"
    /\ Recv(n)
    /\ UNCHANGED call
    /\ \E p \in {process_replies(conns, bufs, replies, ctl.w, SubSeq(wire, 1, n))} :
       LET d == p.replies[conns[ctl.w].replies]
       IN  /\ bufs' = p.bufs
           /\ replies' = p.replies
           /\ hist' = Received(hist, n, p.decoded)
           /\ IF p.exc # ""
              THEN /\ Raise(ctl.op, ctl.j, ctl.id, p.conns, inters, p.exc, <<>>)
                   /\ ctl' = Idle
              ELSE IF ctl.id \notin DOMAIN d
              THEN /\ conns' = p.conns
                   /\ UNCHANGED <<ids, inters, out, ctl, ret>>
              ELSE IF ctl.j = 0
              THEN /\ Raise(ctl.op, 0, ctl.id, p.conns, inters, "", <<d[ctl.id]>>)
                   /\ ctl' = Idle
              ELSE /\ AfterReply(ctl.op, ctl.s, ctl.j, p.conns,
                                 [inters EXCEPT ![ctl.j].raw = <<d[ctl.id]>>])
                   /\ ctl' = Idle

(***************************************************************************)
(* The server.                                                             *)
(***************************************************************************)
Served == {hist.served[n].req : n \in 1..Len(hist.served)}

\* what the server answers to request k: a result of the request's kind
\* (for a command with a new state token) or an error
Answers(k) ==
    IF out[k].method = "Command" THEN {TokenChars[k]} \cup Errors
    ELSE IF out[k].method = "Query" THEN {"q"} \cup Errors
    ELSE {TokenChars[k]}

Write(frame, entry) ==
    /\ ~hist.closed
    /\ wire' = wire \o frame
    /\ hist' = [hist EXCEPT !.served = Append(@, entry),
                            !.written = @ + Len(frame),
                            !.ends = @ \cup {hist.written + Len(frame)},
                            !.nbad = IF entry.req = 0 THEN @ + 1 ELSE @]
    /\ UNCHANGED <<conns, bufs, replies, ids, inters, out, ctl, ret, call>>

\* the server answers request k, once
ServerReply(k, c) ==
    /\ k \notin Served
    /\ Write(encode(ReplyText(out[k].id, c)),
             [req |-> k, id |-> out[k].id, c |-> c,
              frame |-> encode(ReplyText(out[k].id, c))])

\* the server writes a malformed frame
ServerMalformed(f) ==
    /\ hist.nbad < MaxBad
    /\ Write(f, [req |-> 0, id |-> 0, c |-> "", frame |-> f])

\* the server closes the socket: once the bytes it wrote have been received,
\* recv returns b'' where it raised BlockingIOError before, and
\* buffer_replies returns None for both
ServerClose ==
    /\ ~hist.closed
    /\ hist' = [hist EXCEPT !.closed = TRUE]
    /\ UNCHANGED <<conns, bufs, replies, ids, inters, out, wire, ctl, ret, call>>

(***************************************************************************)
(* Specifications.                                                         *)
(***************************************************************************)
\* the sessions: commands and queries on a connection and on its snapshots,
\* each constructor resolving the state of the cursor; a recv returns all
\* the bytes the server has written
Next ==
    \/ \E s \in Sessions : Snapshot(s)
    \/ \E s \in Sessions : IssueCommand(s)
    \/ \E s \in Sessions : IssueQuery(s)
    \/ \E n \in {Len(wire)} : WaitStep(n)
    \/ \E k \in 1..Len(out) : \E c \in Answers(k) : ServerReply(k, c)

Spec == Init /\ [][Next]_vars

\* the results: commands and queries on the root connection and result()
\* of the interactions; a recv returns all the bytes the server has written
NextResult ==
    \/ IssueCommand(1)
    \/ IssueQuery(1)
    \/ \E j \in 1..Len(inters) : Resolve(j)
    \/ \E n \in {Len(wire)} : WaitStep(n)
    \/ \E k \in 1..Len(out) : \E c \in Answers(k) : ServerReply(k, c)

SpecResult == Init /\ [][NextResult]_vars

\* the sessions with a socket that delivers the replies in pieces: commands
\* and queries on a connection and on its snapshots; recv returns chunks of
\* any length
NextSplit ==
    \/ \E s \in Sessions : Snapshot(s)
    \/ \E s \in Sessions : IssueCommand(s)
    \/ \E s \in Sessions : IssueQuery(s)
    \/ \E n \in 0..Len(wire) : WaitStep(n)
    \/ \E k \in 1..Len(out) : \E c \in Answers(k) : ServerReply(k, c)

SpecSplit == Init /\ [][NextSplit]_vars

\* the cached replies: commands on a connection and on its snapshots and
\* result() of the commands, with a server that answers the requests in the
\* order it got them; recv returns chunks of any length
NextCached ==
    \/ \E s \in Sessions : Snapshot(s)
    \/ \E s \in Sessions : IssueCommand(s)
    \/ \E j \in 1..Len(inters) : Resolve(j)
    \/ \E n \in 0..Len(wire) : WaitStep(n)
    \/ \E k \in {Len(hist.served) + 1} \cap (1..Len(out)) :
          \E c \in Answers(k) : ServerReply(k, c)

SpecCached == Init /\ [][NextCached]_vars

\* the transport: send_message, wait_for_reply_to and process_replies on
\* connections that share a socket; recv returns chunks of any length
NextTransport ==
    \/ \E s \in Sessions : Snapshot(s)
    \/ \E s \in Sessions : SendMessage(s)
    \/ \E s \in Sessions : \E k \in 1..Len(out) : WaitFor(s, out[k].id)
    \/ \E s \in Sessions : \E n \in 0..Len(wire) : Pump(s, n)
    \/ \E n \in 0..Len(wire) : WaitStep(n)
    \/ \E k \in 1..Len(out) : \E c \in Answers(k) : ServerReply(k, c)

SpecTransport == Init /\ [][NextTransport]_vars

\* the transport of one connection with a server that may write malformed
\* frames
NextMalformed ==
    \/ SendMessage(1)
    \/ \E k \in 1..Len(out) : WaitFor(1, out[k].id)
    \/ \E n \in 0..Len(wire) : Pump(1, n)
    \/ \E n \in 0..Len(wire) : WaitStep(n)
    \/ \E k \in 1..Len(out) : \E c \in Answers(k) : ServerReply(k, c)
    \/ \E f \in BadFrames : ServerMalformed(f)

SpecMalformed == Init /\ [][NextMalformed]_vars

\* the transport of one connection with a server that may close the socket
NextClosed ==
    \/ SendMessage(1)
    \/ \E k \in 1..Len(out) : WaitFor(1, out[k].id)
    \/ \E n \in 0..Len(wire) : Pump(1, n)
    \/ \E n \in 0..Len(wire) : WaitStep(n)
    \/ \E k \in 1..Len(out) : \E c \in Answers(k) : ServerReply(k, c)
    \/ ServerClose

SpecClosed == Init /\ [][NextClosed]_vars

(***************************************************************************)
(* A caller's program: calls made one after the other on a connection and  *)
(* on two snapshots of it, each call made when the one before it has       *)
(* returned, while the server answers the requests in the order it got     *)
(* them and recv returns chunks of any length.                             *)
(***************************************************************************)
\* the calls, in order: "on" is the connection of a snapshot(), of a command
\* and of a query, and the interaction of a result()
Program ==
    << [op |-> "snapshot", on |-> 1],
       [op |-> "Command", on |-> 2],
       [op |-> "Command", on |-> 1],
       [op |-> "snapshot", on |-> 1],
       [op |-> "Query", on |-> 2],
       [op |-> "Command", on |-> 2],
       [op |-> "result", on |-> 3],
       [op |-> "Query", on |-> 1],
       [op |-> "Command", on |-> 1],
       [op |-> "Command", on |-> 3] >>

InitProgram ==
    /\ InitSession
    /\ call = [fn |-> "program", calls |-> Program]

\* how many of the first k calls are of these kinds
CallsOf(ops, k) == Cardinality({i \in 1..k : call.calls[i].op \in ops})

\* the k-th call has returned: its connection, its interaction or its result
\* exists
Completed(k) ==
    LET c == call.calls[k] IN
    IF c.op = "snapshot" THEN Len(conns) >= 1 + CallsOf({"snapshot"}, k)
    ELSE IF c.op = "result" THEN c.on <= Len(inters) /\ inters[c.on].raw # <<>>
    ELSE Len(inters) >= CallsOf({"Command", "Query"}, k)

\* the call the program makes next
NextCalls ==
    {call.calls[k] : k \in {i \in 1..Len(call.calls) :
                               /\ ~Completed(i)
                               /\ \A h \in 1..(i - 1) : Completed(h)}}

NextProgram ==
    \/ \E c \in NextCalls : c.op = "snapshot" /\ Snapshot(c.on)
    \/ \E c \in NextCalls : c.op = "Command" /\ IssueCommand(c.on)
    \/ \E c \in NextCalls : c.op = "Query" /\ IssueQuery(c.on)
    \/ \E c \in NextCalls : c.op = "result" /\ Resolve(c.on)
    \/ \E n \in 0..Len(wire) : WaitStep(n)
    \/ \E k \in {Len(hist.served) + 1} \cap (1..Len(out)) :
          \E c \in Answers(k) : ServerReply(k, c)

SpecProgram == InitProgram /\ [][NextProgram]_vars

(***************************************************************************)
(* encode and decode applied to messages.                                  *)
(***************************************************************************)
\* the characters of the messages drawn: a digit, the two delimiters of a
\* frame, and a character of two bytes
Alphabet == {"7", ":", ",", "e_acute"}

\* messages whose frames have a length prefix of two digits: twelve
\* characters of one byte, and five characters of two bytes
LongMessages == { [k \in 1..12 |-> IF k % 2 = 1 THEN "1" ELSE ","],
                  [k \in 1..5 |-> "e_acute"] }

Messages == UNION {[1..n -> Alphabet] : n \in 0..MaxLen} \cup LongMessages

\* the caller holds two messages and an empty buffer
InitFraming ==
    /\ InitSession
    /\ \E m1 \in Messages, m2 \in Messages :
          call = [fn |-> "framing", msgs |-> <<m1, m2>>, frames |-> <<>>,
                  buf |-> <<>>, got |-> <<>>, exc |-> ""]

\* buf = buf + encode(m) for the next message m
EncodeNext ==
    /\ call.fn = "framing"
    /\ Len(call.frames) < Len(call.msgs)
    /\ \E f \in {encode_string(call.msgs[Len(call.frames) + 1])} :
          call' = [call EXCEPT !.frames = Append(@, f), !.buf = @ \o f]
    /\ UNCHANGED session

\* (m, buf) = decode(buf), when a frame has been appended that has not been
\* decoded
DecodeHead ==
    /\ call.fn = "framing"
    /\ call.exc = ""
    /\ Len(call.got) < Len(call.frames)
    /\ \E d \in {decode(call.buf)} :
          call' = IF d.tag = "ok"
                  THEN [call EXCEPT !.got = Append(@, d.msg), !.buf = d.rest]
                  ELSE [call EXCEPT !.exc = d.tag]
    /\ UNCHANGED session

NextFraming ==
    \/ EncodeNext
    \/ DecodeHead

SpecFraming == InitFraming /\ [][NextFraming]_vars

(***************************************************************************)
(* decode applied to buffers.                                              *)
(***************************************************************************)
\* the bytes of the buffers drawn: digits, the delimiters, a letter, and the
\* bytes 0xC3 and 0xB2
BufferBytes == {"0", "2", ":", ",", "a", "xC3", "xB2"}

Buffers == UNION {[1..n -> BufferBytes] : n \in 0..MaxBuf}

\* the caller holds a buffer
InitDecode ==
    /\ InitSession
    /\ \E b \in Buffers :
          call = [fn |-> "decode", pc |-> "call", buf |-> b, result |-> IndexError]

\* result = decode(buf), or the exception it raises
Decode ==
    /\ call.fn = "decode"
    /\ call.pc = "call"
    /\ call' = [call EXCEPT !.pc = "done", !.result = decode(call.buf)]
    /\ UNCHANGED session

NextDecode == Decode

SpecDecode == InitDecode /\ [][NextDecode]_vars

(***************************************************************************)
(* Python values.  A value is [t |-> its type, v |-> its content]: a bool, *)
(* an int, a str (a tag or a key is held whole, a text of base64 or hex    *)
(* digits as the sequence of its characters), bytes (a sequence of numbers *)
(* in 0..255), a tuple or a list (a sequence of values), a dict (its items *)
(* [k, val] in insertion order), a generator (the values it has yet to     *)
(* map), or None.  A raised exception is [t |-> "exc", v |-> its class].   *)
(***************************************************************************)
BoolOf(b) == [t |-> "bool", v |-> b]

IntOf(n) == [t |-> "int", v |-> n]

StrOf(s) == [t |-> "str", v |-> s]

BytesOf(bs) == [t |-> "bytes", v |-> bs]

Tuple(xs) == [t |-> "tuple", v |-> xs]

List(xs) == [t |-> "list", v |-> xs]

Dict(items) == [t |-> "dict", v |-> items]

Item(key, val) == [k |-> StrOf(key), val |-> val]

Exc(class) == [t |-> "exc", v |-> class]

\* k in d
HasKey(d, key) == \E n \in 1..Len(d.v) : d.v[n].k = StrOf(key)

\* d[k] for a key that is in d
Lookup(d, key) == d.v[CHOOSE n \in 1..Len(d.v) : d.v[n].k = StrOf(key)].val

\* x == s for a str literal s
IsStr(x, s) == x.t = "str" /\ x.v = s

\* what a comprehension over xs yields: the exception the first failing
\* element raised, or else the mapped elements
Raised(xs) == {n \in 1..Len(xs) : xs[n].t = "exc"}

FirstRaised(xs) == xs[CHOOSE n \in Raised(xs) : \A m \in Raised(xs) : n <= m]

(***************************************************************************)
(* base64 and hex.                                                         *)
(***************************************************************************)
B64 == <<"A", "B", "C", "D", "E", "F", "G", "H", "I", "J", "K", "L", "M",
         "N", "O", "P", "Q", "R", "S", "T", "U", "V", "W", "X", "Y", "Z",
         "a", "b", "c", "d", "e", "f", "g", "h", "i", "j", "k", "l", "m",
         "n", "o", "p", "q", "r", "s", "t", "u", "v", "w", "x", "y", "z",
         "0", "1", "2", "3", "4", "5", "6", "7", "8", "9", "+", "/">>

B64Val(c) == (CHOOSE k \in 1..64 : B64[k] = c) - 1

\* base64.b64encode(val).decode('ascii')
RECURSIVE b64encode(_)
b64encode(bs) ==
    IF bs = <<>> THEN <<>>
    ELSE IF Len(bs) = 1
    THEN <<B64[bs[1] \div 4 + 1], B64[(bs[1] % 4) * 16 + 1], "=", "=">>
    ELSE IF Len(bs) = 2
    THEN <<B64[bs[1] \div 4 + 1],
           B64[(bs[1] % 4) * 16 + bs[2] \div 16 + 1],
           B64[(bs[2] % 16) * 4 + 1], "=">>
    ELSE <<B64[bs[1] \div 4 + 1],
           B64[(bs[1] % 4) * 16 + bs[2] \div 16 + 1],
           B64[(bs[2] % 16) * 4 + bs[3] \div 64 + 1],
           B64[(bs[3] % 64) + 1]>> \o b64encode(SubSeq(bs, 4, Len(bs)))

\* whether base64.b64decode accepts a text of characters of the alphabet
\* and '=': groups of four characters, the last one padded with '=' or '=='
\* (binascii.Error, which it raises otherwise, is a ValueError)
RECURSIVE IsB64(_)
IsB64(cs) ==
    IF cs = <<>> THEN TRUE
    ELSE /\ Len(cs) >= 4
         /\ \A n \in 1..2 : \E k \in 1..64 : B64[k] = cs[n]
         /\ IF cs[3] = "=" THEN cs[4] = "=" /\ Len(cs) = 4
            ELSE /\ \E k \in 1..64 : B64[k] = cs[3]
                 /\ IF cs[4] = "=" THEN Len(cs) = 4
                    ELSE /\ \E k \in 1..64 : B64[k] = cs[4]
                         /\ IsB64(SubSeq(cs, 5, Len(cs)))

\* base64.b64decode of a text it accepts
RECURSIVE b64decode(_)
b64decode(cs) ==
    IF cs = <<>> THEN <<>>
    ELSE IF cs[3] = "="
    THEN <<B64Val(cs[1]) * 4 + B64Val(cs[2]) \div 16>>
    ELSE IF cs[4] = "="
    THEN <<B64Val(cs[1]) * 4 + B64Val(cs[2]) \div 16,
           (B64Val(cs[2]) % 16) * 16 + B64Val(cs[3]) \div 4>>
    ELSE <<B64Val(cs[1]) * 4 + B64Val(cs[2]) \div 16,
           (B64Val(cs[2]) % 16) * 16 + B64Val(cs[3]) \div 4,
           (B64Val(cs[3]) % 4) * 64 + B64Val(cs[4])>>
             \o b64decode(SubSeq(cs, 5, Len(cs)))

Hex == <<"0", "1", "2", "3", "4", "5", "6", "7", "8", "9",
         "a", "b", "c", "d", "e", "f">>

HexVal(c) == (CHOOSE k \in 1..16 : Hex[k] = c) - 1

extend_hex(string) ==
    IF Len(string) % 2 = 1 THEN <<"0">> \o string ELSE string

\* bytes.fromhex of an even number of hex digits
RECURSIVE fromhex(_)
fromhex(cs) ==
    IF cs = <<>> THEN <<>>
    ELSE <<HexVal(cs[1]) * 16 + HexVal(cs[2])>> \o fromhex(SubSeq(cs, 3, Len(cs)))

(***************************************************************************)
(* to_cryptol_arg and from_cryptol_arg.                                    *)
(***************************************************************************)
\* variant: the list comprehension yields the elements last to first
TaggedReversed(tag, xs) ==
    IF Raised(xs) # {} THEN FirstRaised(xs)
    ELSE Dict(<<Item("expression", StrOf(tag)),
                Item("data", List([n \in 1..Len(xs) |-> xs[Len(xs) + 1 - n]]))>>)

\* the value, or the exception, of {'expression': tag, 'data': data} whose
\* data is a list comprehension with the elements xs
Tagged(tag, xs) ==
    IF Raised(xs) # {} THEN FirstRaised(xs)
    ELSE Dict(<<Item("expression", StrOf(tag)), Item("data", List(xs))>>)

RECURSIVE to_cryptol_arg(_)
to_cryptol_arg(val) ==
    IF val.t = "bool" THEN val
    ELSE IF val.t = "tuple" /\ val.v = <<>>
    THEN Dict(<<Item("expression", StrOf("unit"))>>)
    ELSE IF val.t = "tuple"
    THEN Tagged("tuple", [n \in 1..Len(val.v) |-> to_cryptol_arg(val.v[n])])
    ELSE IF val.t = "dict"
    THEN With([n \in 1..Len(val.v) |->
                  IF val.v[n].k.t = "str"
                  THEN [k |-> val.v[n].k, val |-> to_cryptol_arg(val.v[n].val)]
                  ELSE [k |-> val.v[n].k, val |-> Exc("TypeError")]],
              LAMBDA items :
                  With([n \in 1..Len(items) |-> items[n].val], LAMBDA xs :
                      IF Raised(xs) # {} THEN FirstRaised(xs)
                      ELSE Dict(<<Item("expression", StrOf("record")),
                                  Item("data", Dict(items))>>)))
    ELSE IF val.t = "int" THEN val
    ELSE IF val.t = "list"
    THEN Tagged("sequence", [n \in 1..Len(val.v) |-> to_cryptol_arg(val.v[n])])
    ELSE IF val.t = "CryptolLiteral" THEN Exc("AttributeError")
    ELSE IF val.t \in {"bytes", "bytearray"}
    THEN Dict(<<Item("expression", StrOf("bits")),
                Item("encoding", StrOf("base64")),
                Item("width", IntOf(8 * Len(val.v))),
                Item("data", StrOf(b64encode(val.v)))>>)
    ELSE Exc("TypeError")

\* the elements a for loop over x visits: those of a list or a tuple, the
\* keys of a dict
Iterated(x) ==
    IF x.t = "dict" THEN [n \in 1..Len(x.v) |-> x.v[n].k] ELSE x.v

Iterable(x) == x.t \in {"list", "tuple", "dict"}

\* the bits branch of from_cryptol_arg
FromBits(val) ==
    IF ~HasKey(val, "encoding") THEN Exc("KeyError")
    ELSE IF IsStr(Lookup(val, "encoding"), "base64")
    THEN IF ~HasKey(val, "data") THEN Exc("KeyError")
         ELSE IF Lookup(val, "data").t # "str" THEN Exc("AttributeError")
         ELSE IF ~IsB64(Lookup(val, "data").v) THEN Exc("ValueError")
         ELSE BytesOf(b64decode(Lookup(val, "data").v))
    ELSE IF IsStr(Lookup(val, "encoding"), "hex")
    THEN IF ~HasKey(val, "data") THEN Exc("KeyError")
         ELSE IF Lookup(val, "data").t # "str" THEN Exc("TypeError")
         ELSE IF \E n \in 1..Len(Lookup(val, "data").v) :
                    \A k \in 1..16 : Hex[k] # Lookup(val, "data").v[n]
         THEN Exc("ValueError")
         ELSE BytesOf(fromhex(extend_hex(Lookup(val, "data").v)))
    ELSE Exc("ValueError")

RECURSIVE from_cryptol_arg(_)
from_cryptol_arg(val) ==
    IF val.t = "bool" THEN val
    ELSE IF val.t = "int" THEN val
    ELSE IF val.t # "dict" THEN Exc("AttributeError")
    ELSE IF ~HasKey(val, "expression") THEN Exc("TypeError")
    ELSE IF IsStr(Lookup(val, "expression"), "unit") THEN Tuple(<<>>)
    ELSE IF IsStr(Lookup(val, "expression"), "tuple")
    THEN \* a generator expression: nothing is mapped until it is iterated
         IF ~HasKey(val, "data") THEN Exc("KeyError")
         ELSE IF ~Iterable(Lookup(val, "data")) THEN Exc("TypeError")
         ELSE [t |-> "generator", v |-> Iterated(Lookup(val, "data"))]
    ELSE IF IsStr(Lookup(val, "expression"), "record")
    THEN \* {k : from_cryptol_arg(val[k]) for k in val['data']}
         IF ~HasKey(val, "data") THEN Exc("KeyError")
         ELSE IF ~Iterable(Lookup(val, "data")) THEN Exc("TypeError")
         ELSE With(Iterated(Lookup(val, "data")), LAMBDA ks :
                With([n \in 1..Len(ks) |->
                        IF ks[n].t # "str" \/ ~HasKey(val, ks[n].v)
                        THEN Exc("KeyError")
                        ELSE from_cryptol_arg(Lookup(val, ks[n].v))],
                     LAMBDA xs :
                        IF Raised(xs) # {} THEN FirstRaised(xs)
                        ELSE Dict([n \in 1..Len(ks) |->
                                     [k |-> ks[n], val |-> xs[n]]])))
    ELSE IF IsStr(Lookup(val, "expression"), "sequence")
    THEN IF ~HasKey(val, "data") THEN Exc("KeyError")
         ELSE IF ~Iterable(Lookup(val, "data")) THEN Exc("TypeError")
         ELSE With([n \in 1..Len(Iterated(Lookup(val, "data"))) |->
                      from_cryptol_arg(Iterated(Lookup(val, "data"))[n])],
                   LAMBDA xs :
                      IF Raised(xs) # {} THEN FirstRaised(xs) ELSE List(xs))
    ELSE IF IsStr(Lookup(val, "expression"), "bits") THEN FromBits(val)
    ELSE IF Lookup(val, "expression").t = "str" THEN Exc("ValueError")
    ELSE Exc("TypeError")

(***************************************************************************)
(* to_cryptol_arg and from_cryptol_arg applied to native values.           *)
(***************************************************************************)
\* values without elements: booleans, integers, the empty tuple, and byte
\* strings of every length modulo three
Atoms == << BoolOf(TRUE), BoolOf(FALSE), IntOf(0), IntOf(7), Tuple(<<>>),
            BytesOf(<<>>), BytesOf(<<97>>), BytesOf(<<97, 255>>),
            BytesOf(<<0, 16, 255>>), BytesOf(<<251, 239, 190, 1>>) >>

\* the elements of the values drawn with two elements
Few == <<BoolOf(TRUE), IntOf(7), Tuple(<<>>)>>

\* the n-th pair of elements of Few, n in 0..8
Pair(n) == <<Few[(n \div 3) + 1], Few[(n % 3) + 1]>>

\* tuples, lists and records of two elements, and the empty list and record
Wide ==
    [n \in 1..9 |-> Tuple(Pair(n - 1))]
      \o [n \in 1..9 |-> List(Pair(n - 1))]
      \o [n \in 1..9 |-> Dict(<<Item("a", Pair(n - 1)[1]),
                                Item("data", Pair(n - 1)[2])>>)]
      \o [n \in 1..9 |-> Dict(<<Item("data", Pair(n - 1)[1]),
                                Item("a", Pair(n - 1)[2])>>)]
      \o <<List(<<>>), Dict(<<>>)>>

\* the values with one element, drawn from xs
Nested(xs) ==
    [n \in 1..Len(xs) |-> Tuple(<<xs[n]>>)]
      \o [n \in 1..Len(xs) |-> List(<<xs[n]>>)]
      \o [n \in 1..Len(xs) |-> Dict(<<Item("a", xs[n])>>)]
      \o [n \in 1..Len(xs) |-> Dict(<<Item("data", xs[n])>>)]

\* the values nested up to depth d, listed
RECURSIVE Values(_)
Values(d) ==
    IF d = 0 THEN Atoms
    ELSE Atoms \o Wide \o Nested(Values(d - 1))

\* the caller holds a native value
InitCodec ==
    /\ InitSession
    /\ \E vs \in {Values(MaxDepth)} : \E n \in 1..Len(vs) :
          call = [fn |-> "codec", pc |-> "native", val |-> vs[n],
                  wire |-> Exc("none"), back |-> Exc("none")]

\* wire = to_cryptol_arg(val)
ToCryptolArg ==
    /\ call.fn = "codec"
    /\ call.pc = "native"
    /\ call' = [call EXCEPT !.pc = "wire", !.wire = to_cryptol_arg(call.val)]
    /\ UNCHANGED session

\* back = from_cryptol_arg(wire)
FromCryptolArg ==
    /\ call.fn = "codec"
    /\ call.pc = "wire"
    /\ call.wire.t # "exc"
    /\ call' = [call EXCEPT !.pc = "back", !.back = from_cryptol_arg(call.wire)]
    /\ UNCHANGED session

NextCodec ==
    \/ ToCryptolArg
    \/ FromCryptolArg

SpecCodec == InitCodec /\ [][NextCodec]_vars

(***************************************************************************)
(* to_cryptol_arg applied to native values of every type.                  *)
(***************************************************************************)
\* values of the types to_cryptol_arg has no branch for, a str, None and a
\* float, and a bytearray
Others == << StrOf("s"), [t |-> "NoneType", v |-> 0], [t |-> "float", v |-> 15],
             [t |-> "bytearray", v |-> <<97, 255>>] >>

\* the dicts with a key that is not a str, alone or after a str key, drawn
\* from xs
Keyed(xs) ==
    [n \in 1..Len(xs) |-> Dict(<<[k |-> IntOf(1), val |-> xs[n]]>>)]
      \o [n \in 1..Len(xs) |->
             Dict(<<Item("a", xs[n]), [k |-> Tuple(<<>>), val |-> IntOf(7)]>>)]

\* the native values nested up to depth d, listed
RECURSIVE Natives(_)
Natives(d) ==
    IF d = 0 THEN Atoms \o Others
    ELSE Atoms \o Others \o Wide \o Nested(Natives(d - 1)) \o Keyed(Natives(d - 1))

\* the caller holds a native value of any type
InitEncode ==
    /\ InitSession
    /\ \E vs \in {Natives(MaxDepth)} : \E n \in 1..Len(vs) :
          call = [fn |-> "codec", pc |-> "native", val |-> vs[n],
                  wire |-> Exc("none"), back |-> Exc("none")]

SpecEncode == InitEncode /\ [][NextCodec]_vars

(***************************************************************************)
(* Properties.                                                             *)
(***************************************************************************)
Interactions == 1..Len(inters)

IsCommand(i) == inters[i].kind = "Command"

\* the request written for an interaction
RequestOf(i) == out[CHOOSE k \in 1..Len(out) : out[k].id = inters[i].request_id]

\* the replies the server has written for a request identifier
Written(id) ==
    {ReplyObject(hist.served[n].id, hist.served[n].c) :
        n \in {m \in 1..Len(hist.served) : hist.served[m].id = id}}

\* the request of interaction i carries the state of the success reply the
\* server wrote to interaction c
CarriesStateOf(i, c) ==
    \E r \in Written(inters[c].request_id) :
        /\ "result" \in DOMAIN r
        /\ "state" \in DOMAIN r.result
        /\ RequestOf(i).params.state = r.result.state

\* interaction i is a command on connection s
CommandOn(i, s) == IsCommand(i) /\ inters[i].connection = s

\* commands i and j on one connection, with no other command of that
\* connection between them
Consecutive(i, j) ==
    /\ i < j
    /\ CommandOn(i, inters[j].connection)
    /\ IsCommand(j)
    /\ \A k \in (i + 1)..(j - 1) : ~CommandOn(k, inters[j].connection)

\* C1: of two commands issued one after the other on the same connection,
\* with no other command between them, the request of the second carries as
\* params.state exactly the state of the success reply to the first
C1_SecondCarriesStateOfFirst ==
    \A i, j \in Interactions : Consecutive(i, j) => CarriesStateOf(j, i)

\* the first commands issued on connection s after interaction `born`
FirstCommandsAfter(s, born) ==
    {a \in (born + 1)..Len(inters) :
        /\ CommandOn(a, s)
        /\ \A k \in (born + 1)..(a - 1) : ~CommandOn(k, s)}

\* snapshot t was taken when the cursor of its parent was a command
ForkedAfterCommand(t) ==
    /\ hist.forks[t].cursor # 0
    /\ IsCommand(hist.forks[t].cursor)

\* C2: when a connection is forked after command C1, the next command on the
\* original and the next command on the fork both carry the state of C1's
\* reply, whichever is issued first, and their request identifiers differ
C2_BothCarryStateOfFork ==
    \A t \in 2..Len(conns) : ForkedAfterCommand(t) =>
        LET f == hist.forks[t] IN
        /\ \A a \in FirstCommandsAfter(f.parent, f.born) : CarriesStateOf(a, f.cursor)
        /\ \A b \in FirstCommandsAfter(t, f.born) : CarriesStateOf(b, f.cursor)
        /\ \A a \in FirstCommandsAfter(f.parent, f.born) :
           \A b \in FirstCommandsAfter(t, f.born) :
               inters[a].request_id # inters[b].request_id

\* the state tokens of the success replies the server wrote to request id
StatesOfReply(h, id) ==
    {ReplyObject(id, h.served[n].c).result.state :
        n \in {m \in 1..Len(h.served) :
                  h.served[m].id = id /\ h.served[m].c \in Tokens}}

\* the state token the next operation on connection s carries, as far as the
\* server has determined it: none while the command at the cursor has no
\* success reply
TokenIn(cs, its, h, s) ==
    LET ps == protocol_state(cs, its, s) IN
    IF ps.tag = "state" THEN {ps.state}
    ELSE StatesOfReply(h, its[ps.j].request_id)

Token(s) == TokenIn(conns, inters, hist, s)

Cursor(s) == conns[s].most_recent_result

\* this step constructs an interaction on connection s
CreatesOn(s) ==
    /\ Len(inters') = Len(inters) + 1
    /\ inters'[Len(inters')].connection = s

QueryIssued ==
    /\ Len(inters') = Len(inters) + 1
    /\ inters'[Len(inters')].kind = "Query"

C5_IdentifiersUnique ==
    /\ \A k, l \in 1..Len(out) : k # l => out[k].id # out[l].id
    /\ \A k \in 1..Len(out) :
          Cardinality({i \in Interactions : inters[i].request_id = out[k].id}) = 1

C5_Witness ==
    /\ Len(conns) = 3
    /\ hist.forks[3].parent = 2
    /\ \A s \in Sessions : \E i \in Interactions : inters[i].connection = s

\* the reply stored for interaction j is an error reply
ErrorReply(j) ==
    /\ inters[j].raw # <<>>
    /\ "error" \in DOMAIN inters[j].raw[1]

\* the server's message, followed by the data of the error when it has any
ServerMessage(j) ==
    LET error == inters[j].raw[1].error IN
    IF "data" \in DOMAIN error THEN error.message \o <<" ", error.data>>
    ELSE error.message

\* C9: resolving an interaction (result() of a command or a query, or the
\* state() of a command that the constructor of the next interaction calls)
\* whose stored reply has an 'error' object raises CryptolException with the
\* server's message, and the data when there is any, and returns neither a
\* result nor a state token: nothing is constructed from the state of a
\* command whose reply is an error
C9_ErrorReplyRaises ==
    \A j \in Interactions : ErrorReply(j) =>
        /\ ret.j = j => /\ ret.exc = "CryptolException"
                        /\ ret.val = ServerMessage(j)
        /\ IsCommand(j) => Len(inters) = j

C9_Witness ==
    \E i, j \in Interactions :
        /\ IsCommand(i) /\ ErrorReply(i)
        /\ inters[j].kind = "Query" /\ ErrorReply(j)
        /\ "data" \in DOMAIN inters[j].raw[1].error
        /\ ret.op = "result" /\ ret.j = j /\ ret.exc = "CryptolException"

\* the bytes the server has written, frame after frame
RECURSIVE Stream(_)
Stream(n) == IF n = 0 THEN <<>> ELSE Stream(n - 1) \o hist.served[n].frame

\* the bytes recv has returned so far
ReceivedBytes == SubSeq(Stream(Len(hist.served)), 1, hist.read)

\* the frames decoded so far, as they were framed
RECURSIVE DecodedBytes(_)
DecodedBytes(n) ==
    IF n = 0 THEN <<>> ELSE DecodedBytes(n - 1) \o encode_string(hist.decoded[n])

\* the frame of the reply to request id is the n-th the server wrote
FrameOf(id) == CHOOSE n \in 1..Len(hist.served) : hist.served[n].id = id

\* the reply mapping the connections share
Mapping == replies[conns[1].replies]

\* the reply to request id is stored in the mapping as the server wrote it
Stored(id) == id \in DOMAIN Mapping /\ Mapping[id] \in Written(id)

\* C6: when the reply for B arrives on the socket before the reply for A,
\* wait_for_reply_to(A) returns only once the reply with id A has been
\* received and returns exactly that reply, and the reply for B is then in
\* the reply mapping, where a later wait_for_reply_to(B) finds it without
\* further bytes from the server
C6_OutOfOrderRepliesKept ==
    (ret.op = "wait_for_reply_to" /\ ret.exc = "") =>
        /\ \E r \in Written(ret.id) : ret.val = <<r>>
        /\ Len(Stream(FrameOf(ret.id))) <= hist.read
        /\ \A n \in 1..(FrameOf(ret.id) - 1) : Stored(hist.served[n].id)

\* wait_for_reply_to(ctl.id) can never return: the server has answered every
\* request, recv has returned every byte, and process_replies does not find
\* the reply
Hangs ==
    /\ ctl.pc = "wait"
    /\ wire = <<>>
    /\ Served = 1..Len(out)
    /\ hist.nbad = 0
    /\ ctl.id \notin
          DOMAIN process_replies(conns, bufs, replies, ctl.w, <<>>).replies[conns[ctl.w].replies]

\* C7: once the server has written the complete well-formed reply frame for
\* A, wait_for_reply_to(A) on any connection sharing the socket returns,
\* however the bytes are split across recv calls and whatever pumps and
\* waits other connections forked from the same root made before: the wait
\* is never left without a way to return
C7_WaitReturns == ~Hangs

\* C8: pumping discards no bytes: for every connection, the frames decoded
\* so far, in order, followed by the bytes held in its accumulator are the
\* bytes received so far, and the frames decoded are the frames the server
\* sent, in order
C8_NoBytesDiscarded ==
    /\ \A s \in Sessions :
          DecodedBytes(Len(hist.decoded)) \o bufs[conns[s].buf] = ReceivedBytes
    /\ Len(hist.decoded) <= Len(hist.served)
    /\ \A n \in 1..Len(hist.decoded) : encode_string(hist.decoded[n]) = hist.served[n].frame

\* the head of the buffer is a malformed frame: decode raises ValueError
Malformed(buf) == decode(buf).tag = "ValueError"

\* C10: when the bytes at the head of the inbound buffer form a malformed
\* frame, a wait_for_reply_to in progress aborts with an exception instead of
\* continuing to wait: a turn of the wait that receives bytes, does not find
\* its reply and leaves a malformed frame at the head of the buffer ends the
\* wait with an exception
C10_MalformedAbortsWait ==
    [][(/\ ctl.pc = "wait"
        /\ hist'.read > hist.read
        /\ ctl.id \notin DOMAIN replies'[conns'[ctl.w].replies]
        /\ Malformed(bufs'[conns'[ctl.w].buf]))
       => (ctl'.pc = "idle" /\ ret'.exc # "")]_vars

\* a turn of wait_for_reply_to(ctl.id) changes nothing: recv has no bytes to
\* return, process_replies decodes no frame and the reply is not there
TurnsInVain ==
    /\ ctl.pc = "wait"
    /\ wire = <<>>
    /\ \E p \in {process_replies(conns, bufs, replies, ctl.w, <<>>)} :
          /\ p.exc = ""
          /\ p.decoded = <<>>
          /\ ctl.id \notin DOMAIN p.replies[conns[ctl.w].replies]

\* C11: when the server has closed the socket (recv returns zero bytes) and
\* the reply a wait_for_reply_to in progress waits for has not been received,
\* the wait ends with an exception: it is never left to turn in vain on the
\* closed socket
C11_ClosedAbortsWait == ~(hist.closed /\ TurnsInVain)

(***************************************************************************)
(* Framing.                                                                *)
(***************************************************************************)
\* the number of bytes of the UTF-8 form of a text
RECURSIVE Utf8Len(_)
Utf8Len(m) ==
    IF m = <<>> THEN 0
    ELSE (IF m[1] \in {"e_acute", "o_grave"} THEN 2 ELSE 1) + Utf8Len(Tail(m))

\* frames[a] + ... + frames[b]
RECURSIVE Joined(_, _, _)
Joined(frames, a, b) ==
    IF a > b THEN <<>> ELSE frames[a] \o Joined(frames, a + 1, b)

\* C12: framing round trip.  decode applied to encode(m1), or to
\* encode(m1) + encode(m2), returns m1 and as remainder the frames that
\* follow, and applied to that remainder it returns m2 and the empty
\* remainder; it never raises, whatever delimiters and digits the payloads
\* hold; and the length prefix of each frame is the number of payload bytes.
C12_FramingRoundTrip ==
    call.fn = "framing" =>
        /\ call.exc = ""
        /\ call.got = SubSeq(call.msgs, 1, Len(call.got))
        /\ call.buf = Joined(call.frames, Len(call.got) + 1, Len(call.frames))
        /\ \A k \in 1..Len(call.frames) :
              call.frames[k] = str(Utf8Len(call.msgs[k])) \o <<":">>
                                 \o str_encode(call.msgs[k]) \o <<",">>

\* decode was applied to encode(m1) + encode(m2), whose payloads hold both
\* delimiters, a digit and a character of two bytes: it returned m1 and left
\* the frame of m2
C12_Witness ==
    /\ call.fn = "framing"
    /\ call.msgs = << <<":", ",">>, <<"7", "e_acute">> >>
    /\ call.got = <<call.msgs[1]>>
    /\ Len(call.frames) = 2
    /\ call.buf = call.frames[2]

(***************************************************************************)
(* Value codec.                                                            *)
(***************************************************************************)
\* a equals b: booleans, integers and bytes by content, tuples and lists
\* element-wise in order, records by their key-value pairs
RECURSIVE Same(_, _)
Same(a, b) ==
    /\ a.t = b.t
    /\ IF a.t \in {"bool", "int", "bytes"} THEN a.v = b.v
       ELSE IF a.t \in {"tuple", "list"}
       THEN /\ Len(a.v) = Len(b.v)
            /\ \A n \in 1..Len(a.v) : Same(a.v[n], b.v[n])
       ELSE IF a.t = "dict"
       THEN /\ Len(a.v) = Len(b.v)
            /\ \A n \in 1..Len(a.v) : \E m \in 1..Len(b.v) :
                  /\ a.v[n].k = b.v[m].k
                  /\ Same(a.v[n].val, b.v[m].val)
       ELSE FALSE

\* C13: value codec round trip.  For every native value v built from
\* booleans, integers, the empty tuple, non-empty tuples, string-keyed records,
\* lists and byte strings, to_cryptol_arg(v) raises nothing and
\* from_cryptol_arg applied to it returns a value equal to v.
C13_ValueRoundTrip ==
    /\ call.fn = "codec" /\ call.pc = "wire" => call.wire.t # "exc"
    /\ call.fn = "codec" /\ call.pc = "back" => Same(call.back, call.val)

(***************************************************************************)
(* The reply mapping.                                                      *)
(***************************************************************************)
\* C14: a stored reply is immutable.  A reply that is in the reply mapping of
\* a connection under an identifier is there, with the same content, after
\* every step: no pump, send, wait or snapshot removes or replaces it.
C14_StoredReplyStays ==
    [][\A s \in Sessions : \A id \in DOMAIN replies[conns[s].replies] :
          /\ id \in DOMAIN replies'[conns'[s].replies]
          /\ replies'[conns'[s].replies][id] = replies[conns[s].replies][id]]_vars

\* C15: in every state all the connections made from one connection by
\* snapshot() refer to the same bytearray, the same reply dictionary, the
\* same socket and the same IDSource, also after one of them has taken frames
\* out of the bytearray.
C15_SnapshotsShareTransport ==
    \A s \in Sessions, t \in Sessions :
        /\ conns[s].buf = conns[t].buf
        /\ conns[s].replies = conns[t].replies
        /\ conns[s].sock = conns[t].sock
        /\ conns[s].ids = conns[t].ids

(***************************************************************************)
(* Queries between commands.                                               *)
(***************************************************************************)
\* interaction j, a command or a query, was issued on the connection of
\* command i after it, with no other command of that connection between them
Follows(i, j) ==
    /\ i < j
    /\ CommandOn(i, inters[j].connection)
    /\ \A k \in (i + 1)..(j - 1) : ~CommandOn(k, inters[j].connection)

\* C16: on one connection, every query issued after command C and before the
\* next command, and that next command itself, carries as params.state
\* exactly the state of the reply to C, however many queries lie between
\* and whether or not their replies have been received.
C16_QueriesCarryStateOfCommand ==
    \A i \in Interactions, j \in Interactions :
        Follows(i, j) => CarriesStateOf(j, i)

(***************************************************************************)
(* Identifiers.                                                            *)
(***************************************************************************)
\* C17: IDSource.get returns 1 on its first call and one more than before on
\* every later call: the k-th request written to the socket, whichever
\* connection sent it, carries id k, and every connection's IDSource has
\* counted exactly the requests written.
C17_KthMessageCarriesIdK ==
    /\ \A k \in 1..Len(out) : out[k].id = k
    /\ \A s \in Sessions : ids[conns[s].ids] = Len(out)

\* three requests were written, by three connections
C17_Witness ==
    /\ Len(out) = 3
    /\ \A i, j \in Interactions : i # j => inters[i].connection # inters[j].connection
    /\ Len(inters) = 3

(***************************************************************************)
(* send_message.                                                           *)
(***************************************************************************)
\* C18: send_message returns the new identifier at once.  A step that writes
\* a request advances the IDSource of the connections by one, appends one
\* request with exactly the fields jsonrpc, method, id and params, whose id
\* is the new value, and returns that value; it reads nothing from the
\* socket, waits for nothing, and leaves every bytearray, the reply
\* dictionary and every connection's cursor as they were.
C18_SendOnlySends ==
    [][Len(out') # Len(out) =>
          /\ Len(out') = Len(out) + 1
          /\ SubSeq(out', 1, Len(out)) = out
          /\ DOMAIN out'[Len(out')] = {"jsonrpc", "method", "id", "params"}
          /\ \A s \in Sessions : ids'[conns[s].ids] = ids[conns[s].ids] + 1
          /\ out'[Len(out')].id = ids'[conns[1].ids]
          /\ ret'.exc = "" /\ ret'.id = out'[Len(out')].id
          /\ ctl' = Idle
          /\ wire' = wire /\ hist' = hist
          /\ bufs' = bufs /\ replies' = replies /\ conns' = conns]_vars

\* send_message has returned while there is a snapshot, a reply is stored,
\* bytes are in the bytearray of a connection and bytes are on the socket
C18_Witness ==
    /\ ret.op = "send_message"
    /\ Len(conns) >= 2
    /\ DOMAIN replies[conns[1].replies] # {}
    /\ \E b \in BufObjs : bufs[b] # <<>>
    /\ wire # <<>>

(***************************************************************************)
(* At-most-once delivery.                                                  *)
(***************************************************************************)
\* the requests written that carry the identifier of interaction i
RequestsOf(o, its, i) == {k \in 1..Len(o) : o[k].id = its[i].request_id}

\* C19: every interaction writes its request exactly once, when it is
\* constructed.  A step that writes to the socket constructs one interaction
\* and writes one request, with the identifier of that interaction, and
\* after every step (a pump, a wait, the resolution of a state, an error
\* reply, a snapshot) every interaction's identifier is on exactly one
\* request written.
C19_RequestWrittenOnce ==
    [][/\ out' # out =>
             /\ Len(inters') = Len(inters) + 1
             /\ out' = Append(out, out'[Len(out')])
             /\ out'[Len(out')].id = inters'[Len(inters')].request_id
       /\ \A i \in 1..Len(inters') :
             Cardinality(RequestsOf(out', inters', i)) = 1]_vars

\* two requests have been written, one of them a command that got an error
\* reply; a snapshot has that command as cursor, and the last call raised
\* the error
C19_Witness ==
    /\ ret.exc = "CryptolException"
    /\ Len(out) = 2
    /\ \E s \in Sessions : s # inters[ret.j].connection /\ Cursor(s) = ret.j

(***************************************************************************)
(* Incomplete and malformed frames.                                        *)
(***************************************************************************)
\* the number of ASCII digits buf[i:] begins with, added to i
RECURSIVE LengthDigits(_, _)
LengthDigits(buf, i) ==
    IF i < Len(buf) /\ \E k \in 1..10 : Digits[k] = buf[i + 1]
    THEN LengthDigits(buf, i + 1)
    ELSE i

\* bs can be continued to UTF-8 text of n bytes
CanBeUtf8(bs, n) ==
    \/ IsUtf8(bs)
    \/ /\ Len(bs) < n
       /\ bs[Len(bs)] = "xC3"
       /\ IsUtf8(SubSeq(bs, 1, Len(bs) - 1))

\* buf is a strict prefix of a frame: some digits; or digits, ':' and fewer
\* bytes than the payload they declare and the ',' after it
PrefixOfFrame(buf) ==
    LET i == LengthDigits(buf, 0) IN
    IF i = Len(buf) THEN TRUE
    ELSE /\ i >= 1
         /\ buf[i + 1] = ":"
         /\ Len(buf) < i + 1 + int(SubSeq(buf, 1, i)) + 1
         /\ CanBeUtf8(SubSeq(buf, i + 2, Len(buf)), int(SubSeq(buf, 1, i)))

\* the bytes present show that buf is malformed: a byte that is neither a
\* digit nor ':' where the length is, no digit before ':', or a byte other
\* than ',' right after the declared payload
ShowsMalformed(buf) ==
    LET i == LengthDigits(buf, 0) IN
    /\ i < Len(buf)
    /\ \/ buf[i + 1] # ":"
       \/ i = 0
       \/ /\ Len(buf) >= i + 1 + int(SubSeq(buf, 1, i)) + 1
          /\ buf[i + 1 + int(SubSeq(buf, 1, i)) + 1] # ","

\* C20: decode distinguishes incomplete from malformed.  Applied to a strict
\* prefix of a frame, the empty buffer included, decode raises IndexError and
\* returns no message; applied to a buffer whose bytes show it to be
\* malformed it raises ValueError, and so never IndexError.
C20_DecodeDistinguishes ==
    call.fn = "decode" /\ call.pc = "done" =>
        /\ PrefixOfFrame(call.buf) => call.result = IndexError
        /\ ShowsMalformed(call.buf) => call.result = ValueError

(***************************************************************************)
(* The encoding of native values.                                          *)
(***************************************************************************)
\* a == b for two values, compared type first
RECURSIVE WireEq(_, _)
WireEq(a, b) ==
    /\ a.t = b.t
    /\ IF a.t \in {"tuple", "list"}
       THEN /\ Len(a.v) = Len(b.v)
            /\ \A n \in 1..Len(a.v) : WireEq(a.v[n], b.v[n])
       ELSE IF a.t = "dict"
       THEN /\ Len(a.v) = Len(b.v)
            /\ \A n \in 1..Len(a.v) : \E m \in 1..Len(b.v) :
                  /\ WireEq(a.v[n].k, b.v[m].k)
                  /\ WireEq(a.v[n].val, b.v[m].val)
       ELSE a.v = b.v

\* the native values the wire can carry: booleans, integers, byte strings,
\* and tuples, lists and string-keyed mappings of such values
RECURSIVE Representable(_)
Representable(v) ==
    IF v.t \in {"bool", "int", "bytes", "bytearray"} THEN TRUE
    ELSE IF v.t \in {"tuple", "list"}
    THEN \A n \in 1..Len(v.v) : Representable(v.v[n])
    ELSE IF v.t = "dict"
    THEN \A n \in 1..Len(v.v) : v.v[n].k.t = "str" /\ Representable(v.v[n].val)
    ELSE FALSE

\* w is {'expression': tag, 'data': [...]} with the encodings of xs in order
TaggedList(w, tag, xs) ==
    /\ w.t = "dict" /\ Len(w.v) = 2
    /\ HasKey(w, "expression") /\ IsStr(Lookup(w, "expression"), tag)
    /\ HasKey(w, "data")
    /\ Lookup(w, "data").t = "list"
    /\ Len(Lookup(w, "data").v) = Len(xs)
    /\ \A n \in 1..Len(xs) : WireEq(Lookup(w, "data").v[n], to_cryptol_arg(xs[n]))

\* w is the bits tag of the bytes bs
TaggedBits(w, bs) ==
    /\ w.t = "dict" /\ Len(w.v) = 4
    /\ HasKey(w, "expression") /\ IsStr(Lookup(w, "expression"), "bits")
    /\ HasKey(w, "encoding") /\ IsStr(Lookup(w, "encoding"), "base64")
    /\ HasKey(w, "width") /\ WireEq(Lookup(w, "width"), IntOf(8 * Len(bs)))
    /\ HasKey(w, "data")
    /\ Lookup(w, "data").t = "str"
    /\ IsB64(Lookup(w, "data").v)
    /\ b64decode(Lookup(w, "data").v) = bs

\* w is the record tag of the items of a string-keyed mapping
TaggedRecord(w, items) ==
    /\ w.t = "dict" /\ Len(w.v) = 2
    /\ HasKey(w, "expression") /\ IsStr(Lookup(w, "expression"), "record")
    /\ HasKey(w, "data")
    /\ Lookup(w, "data").t = "dict"
    /\ Len(Lookup(w, "data").v) = Len(items)
    /\ \A n \in 1..Len(items) :
          /\ HasKey(Lookup(w, "data"), items[n].k.v)
          /\ WireEq(Lookup(Lookup(w, "data"), items[n].k.v),
                    to_cryptol_arg(items[n].val))

\* w is what the value v is to be encoded as
Encoded(v, w) ==
    IF ~Representable(v) THEN w.t = "exc" /\ w.v = "TypeError"
    ELSE IF v.t \in {"bool", "int"} THEN WireEq(w, v)
    ELSE IF v.t = "tuple" /\ v.v = <<>>
    THEN WireEq(w, Dict(<<Item("expression", StrOf("unit"))>>))
    ELSE IF v.t = "tuple" THEN TaggedList(w, "tuple", v.v)
    ELSE IF v.t = "list" THEN TaggedList(w, "sequence", v.v)
    ELSE IF v.t = "dict" THEN TaggedRecord(w, v.v)
    ELSE TaggedBits(w, v.v)

\* C21: value encode mapping.  to_cryptol_arg returns a boolean and an
\* integer unchanged, the unit tag for the empty tuple, the tuple tag with the
\* encoded elements in order for a non-empty tuple, the sequence tag for a
\* list, the bits tag with encoding base64 and width 8 times the length for a
\* byte string, the record tag for a mapping with only string keys, and
\* raises TypeError for a mapping with a key that is not a string and for a
\* value of any other native type, at any depth.
C21_EncodeMapping ==
    call.fn = "codec" /\ call.pc # "native" => Encoded(call.val, call.wire)

\* a mapping with a string key and a key that is not a string was refused
C21_Witness ==
    /\ call.fn = "codec" /\ call.pc = "wire"
    /\ call.val.t = "dict" /\ Len(call.val.v) = 2
    /\ call.val.v[1].k.t = "str" /\ Representable(call.val.v[1].val)
    /\ call.val.v[1].val.t = "tuple"
    /\ call.val.v[2].k.t # "str"
    /\ call.wire.t = "exc" /\ call.wire.v = "TypeError"

(***************************************************************************)
(* A command that failed.                                                  *)
(***************************************************************************)
\* the error replies connection s has received for the command at its
\* cursor: the reply the command has cached or, before that, the reply that
\* is stored under its identifier in the reply mapping of the connection the
\* command waits on
ErrorsAtCursor(s) ==
    LET j == conns[s].most_recent_result IN
    IF j = 0 THEN {}
    ELSE IF ~IsCommand(j) THEN {}
    ELSE IF inters[j].raw # <<>>
    THEN {r \in {inters[j].raw[1]} : "error" \in DOMAIN r}
    ELSE LET d == replies[conns[inters[j].connection].replies] IN
         {r \in {d[id] : id \in DOMAIN d \cap {inters[j].request_id}} :
             "error" \in DOMAIN r}

\* C22: once the command at the cursor of a connection (or of a connection
\* forked from it afterwards) has received an error reply, no step constructs
\* an interaction on that connection or moves its cursor, and every command
\* or query attempted on it raises CryptolException with the message of that
\* reply without writing a request or taking an identifier.
C22_FailedCommandBlocksSession ==
    [][\A s \in Sessions : \A r \in ErrorsAtCursor(s) :
          /\ ~CreatesOn(s)
          /\ conns'[s].most_recent_result = conns[s].most_recent_result
          /\ (/\ ret'.op \in {"Command", "Query"}
              /\ ret'.j = conns[s].most_recent_result)
             => /\ ret'.exc = "CryptolException"
                /\ ret'.val = ErrorMsg(r)
                /\ out' = out
                /\ ids' = ids]_vars

(***************************************************************************)
(* Requests wait for the command they depend on.                           *)
(***************************************************************************)
\* the cursor of its connection when interaction i was constructed: the
\* interaction constructed before it on that connection or, for the first
\* one of a snapshot, the cursor the snapshot copied
CursorBefore(i) ==
    LET s == inters[i].connection
        before == {k \in 1..(i - 1) : inters[k].connection = s}
    IN  IF before # {} THEN CHOOSE k \in before : \A h \in before : h <= k
        ELSE hist.forks[s].cursor

\* the reply to interaction j has been received: the server has written it,
\* recv has returned its last byte, and a reply is stored under its
\* identifier in the reply mapping of the connection j waits on
ReplyReceived(j) ==
    /\ \E n \in 1..Len(hist.served) :
          /\ hist.served[n].id = inters[j].request_id
          /\ Len(Stream(n)) <= hist.read
    /\ inters[j].request_id \in DOMAIN replies[conns[inters[j].connection].replies]

\* the commands constructed on connection s that still await their reply
Awaiting(s) == {j \in Interactions : CommandOn(j, s) /\ ~ReplyReceived(j)}

\* C23: an operation issued on a connection whose cursor is a command
\* without a reply blocks until that reply is stored.  The request of every
\* interaction constructed when the cursor was a command was sent after the
\* reply to that command had been received, the thread that waits has sent
\* nothing for the call it is in, and no connection has more than one
\* command of its own awaiting a reply.
C23_RequestsWaitForCommand ==
    /\ \A i \in Interactions :
          (CursorBefore(i) # 0 /\ IsCommand(CursorBefore(i)))
             => /\ ReplyReceived(CursorBefore(i))
                /\ inters[CursorBefore(i)].raw # <<>>
    /\ ctl.pc = "wait" /\ ctl.op \in {"Command", "Query"}
          => /\ conns[ctl.s].most_recent_result = ctl.j
             /\ IsCommand(ctl.j)
             /\ inters[ctl.j].raw = <<>>
    /\ \A s \in Sessions : Cardinality(Awaiting(s)) <= 1

\* an operation is blocked on a command whose reply the server has not
\* written, on a connection made by snapshot(), after a request that waited
\* for a command was sent
C23_Witness ==
    /\ ctl.pc = "wait" /\ ctl.op \in {"Command", "Query"}
    /\ ctl.s > 1
    /\ ~ReplyReceived(ctl.j)
    /\ \E i \in Interactions : CursorBefore(i) # 0 /\ IsCommand(CursorBefore(i))

(***************************************************************************)
(* The reply an interaction has cached.                                    *)
(***************************************************************************)
\* this step leaves the socket and the transport alone: recv is not called,
\* no buffer and no reply mapping changes, and the thread does not wait
NoPump ==
    /\ wire' = wire
    /\ bufs' = bufs
    /\ replies' = replies
    /\ hist' = hist
    /\ ctl'.pc = "idle"

\* this step is a result() of interaction j that returns or raises
ReturnsResultOf(j) ==
    /\ ret' # ret
    /\ ret'.op = "result"
    /\ ret'.j = j

\* this step is a constructor that raises from the state() of the cursor j
RaisesStateOf(j) ==
    /\ ret' # ret
    /\ ret'.op \in {"Command", "Query"}
    /\ ret'.j = j

\* this step constructs an interaction on a connection whose cursor is j
CreatesAfter(j) ==
    /\ Len(inters') = Len(inters) + 1
    /\ conns[inters'[Len(inters')].connection].most_recent_result = j

\* C24: an interaction waits on the transport at most once.  Once
\* raw_result() of an interaction has returned a reply, that reply stays
\* cached; every later result() of the interaction, and every state() a
\* constructor calls on it from any connection whose cursor it is, uses the
\* cached reply without a recv and without waiting; and a wait for the reply
\* to an interaction is always made on the connection that constructed it.
C24_InteractionWaitsOnce ==
    [][/\ \A j \in Interactions : inters[j].raw # <<>> =>
             /\ inters'[j].raw = inters[j].raw
             /\ ReturnsResultOf(j) =>
                   /\ NoPump
                   /\ ret'.exc = Result(inters[j], inters[j].raw[1]).exc
                   /\ ret'.val = Result(inters[j], inters[j].raw[1]).val
             /\ RaisesStateOf(j) =>
                   /\ NoPump
                   /\ ret'.exc = result_and_state(inters[j].raw[1]).exc
             /\ CreatesAfter(j) =>
                   /\ NoPump
                   /\ inters'[Len(inters')].init_state
                         = result_and_state(inters[j].raw[1]).state
       /\ (ctl'.pc = "wait" /\ ctl'.j # 0) =>
             /\ ctl'.w = inters'[ctl'.j].connection
             /\ ctl'.id = inters'[ctl'.j].request_id
             /\ inters'[ctl'.j].raw = <<>>]_vars

\* a command has cached its reply; the next command of its connection and
\* the next command of a snapshot that copied it as cursor were both sent
\* after it, and result() of it has returned
C24_Witness ==
    \E j, a, b \in Interactions :
        /\ IsCommand(j) /\ inters[j].raw # <<>>
        /\ a # b
        /\ CursorBefore(a) = j /\ CursorBefore(b) = j
        /\ inters[a].connection = inters[j].connection
        /\ inters[b].connection # inters[j].connection
        /\ ret.op = "result" /\ ret.j = j /\ ret.exc = ""

====
